---- MODULE Spec2Model ----
(***************************************************************************)
(* Model of src/csv_writer.py: class CSVWriter, a logger that owns two CSV *)
(* files (simulation_data.csv and hazard_events.csv) in the directory      *)
(* output_data.                                                            *)
(*                                                                         *)
(* A file is a record [exists, rows]; rows is the sequence of the rows of  *)
(* the file, each row the sequence of its fields as csv.writer renders     *)
(* them (str() of every value).  A dictionary of the program is a function *)
(* whose domain is the set of the keys present.  Floating point values are *)
(* Num(n), n counting thousandths.                                        *)
(*                                                                         *)
(* Every I/O step (makedirs, open, writerow/flush) can fail; the point of  *)
(* failure is a parameter of the action.                                   *)
(***************************************************************************)
EXTENDS Integers, Sequences, FiniteSets, TLC

VARIABLES
    dir_exists,          \* os.path.exists(self.output_dir)
    fs,                  \* the two files, by path
    alive,               \* a CSVWriter object has been constructed
    append_mode,         \* self.append_mode
    write_header_data,   \* self.write_header_data
    write_header_hazard, \* self.write_header_hazard
    ret,                 \* what the last call returned or raised
    printed,             \* what the last call printed
    last,                \* the last call: its name, the number of its records
    header_written,      \* the files the last call wrote a header row to
    truncated,           \* the files whose rows the last call discarded
    initialized          \* initialize_files returned True, writes only since

vars == <<dir_exists, fs, alive, append_mode, write_header_data,
          write_header_hazard, ret, printed, last, header_written,
          truncated, initialized>>

(* ------------------------------ bounds -------------------------------- *)
MaxDataRows == 3    \* write_data is taken while the file stays within it
MaxHazardRows == 2  \* write_hazard_event is taken while the file is below it
MaxBatch == 2       \* longest sensor_data list passed to write_data

(* ------------------------------ paths --------------------------------- *)
data_path == "output_data/simulation_data.csv"
hazard_path == "output_data/hazard_events.csv"
Paths == {data_path, hazard_path}

(* ----------------------------- helpers -------------------------------- *)
\* dict.get(key, default)
Get(d, k, default) == IF k \in DOMAIN d THEN d[k] ELSE default

EmptyDict == [k \in {} |-> 0]

\* str() of a bool, as csv.writer renders it
StrBool(b) == IF b THEN "True" ELSE "False"

\* str() of an int
StrInt(n) == ToString(n)

\* the values of the formatted fields: a number (in thousandths) or a string
Num(n) == [num |-> n]
Str(s) == [str |-> s]

\* a value the format spec .2f accepts
IsNumber(v) == "num" \in DOMAIN v

\* f"{v:.2f}" for a number of v thousandths: rounded to hundredths, two
\* decimals always
Fmt2(n) ==
    LET v == n.num
        a == IF v < 0 THEN -v ELSE v
        h == (a + 5) \div 10
        ip == h \div 100
        fp == h % 100
    IN  (IF v < 0 THEN "-" ELSE "") \o ToString(ip) \o "."
        \o (IF fp < 10 THEN "0" ELSE "") \o ToString(fp)

\* str() of a dict of strings, given as the sequence of its (key, value) items
RECURSIVE StrItems(_)
StrItems(m) ==
    IF m = <<>> THEN ""
    ELSE "'" \o m[1][1] \o "': '" \o m[1][2] \o "'"
         \o (IF Len(m) > 1 THEN ", " ELSE "") \o StrItems(Tail(m))

StrDict(m) == "{" \o StrItems(m) \o "}"

(* ----------------------------- headers -------------------------------- *)
DataHeader ==
    <<"timestamp", "step", "vehicle_id", "type", "x", "y", "speed",
      "acceleration", "angle", "lane_id", "hazard_active">>

HazardHeader == <<"timestamp", "hazard_name", "metadata">>

Header(p) == IF p = data_path THEN DataHeader ELSE HazardHeader

(* ------------------------------ files --------------------------------- *)
Absent == [exists |-> FALSE, rows |-> <<>>]

\* open(path, 'w'): the file is created, or truncated when it exists
OpenW_keeping(f) == [exists |-> TRUE, rows |-> f.rows]
OpenW(f) == [exists |-> TRUE, rows |-> <<>>]

\* open(path, 'a'): the file is created when absent, its content is kept
OpenA_truncating(f) == [exists |-> TRUE, rows |-> <<>>]
OpenA(f) == [exists |-> TRUE, rows |-> f.rows]

\* writer.writerow(row)
WriteRow(f, row) == [f EXCEPT !.rows = Append(@, row)]

(* ------------------------------ inputs -------------------------------- *)
Configs ==
    { [simulation |-> [csv_append_mode |-> TRUE]],
      [simulation |-> [csv_append_mode |-> FALSE]],
      [simulation |-> EmptyDict],
      EmptyDict }

\* a record with every field, one with the vehicle identifier alone, and one
\* whose speed cannot be formatted
SampleFull ==
    [id |-> "veh0", type |-> "car", x |-> Num(5000), y |-> Num(1234),
     speed |-> Num(13889), acceleration |-> Num(-1500), angle |-> Num(90000),
     lane |-> "E0_0", hazard_active |-> TRUE]
SampleBare == [id |-> "veh1"]
SampleBad == [id |-> "veh2", type |-> "car", speed |-> Str("fast")]
Samples == {SampleFull, SampleBare, SampleBad}

Batches == UNION { [1..n -> Samples] : n \in 0..MaxBatch }

\* the simulation state: the time is present, the step is left to its default
SimStates == { [simulation_time |-> 10] }

Events ==
    { [timestamp |-> 12, hazard_name |-> "pothole", metadata |-> <<>>],
      [metadata |-> << <<"lane", "E0_0">>, <<"kind", "flood">> >>] }

(* ------------------------------ rows ---------------------------------- *)
\* the row write_data builds for one record (lines 92-104)
SampleRow_own_time(data, timestamp, step) ==
    << StrInt(Get(data, "simulation_time", 0)),
       StrInt(Get(data, "step", 0)),
       Get(data, "id", ""),
       Get(data, "type", ""),
       Fmt2(Get(data, "x", Num(0))),
       Fmt2(Get(data, "y", Num(0))),
       Fmt2(Get(data, "speed", Num(0))),
       Fmt2(Get(data, "acceleration", Num(0))),
       Fmt2(Get(data, "angle", Num(0))),
       Get(data, "lane", ""),
       StrBool(Get(data, "hazard_active", FALSE)) >>
SampleRow(data, timestamp, step) ==
    << StrInt(timestamp),
       StrInt(step),
       Get(data, "id", ""),
       Get(data, "type", ""),
       Fmt2(Get(data, "x", Num(0))),
       Fmt2(Get(data, "y", Num(0))),
       Fmt2(Get(data, "speed", Num(0))),
       Fmt2(Get(data, "acceleration", Num(0))),
       Fmt2(Get(data, "angle", Num(0))),
       Get(data, "lane", ""),
       StrBool(Get(data, "hazard_active", FALSE)) >>

\* building the row raises when a formatted field is not a number
RowRaises(data) ==
    \E k \in {"x", "y", "speed", "acceleration", "angle"} :
        ~IsNumber(Get(data, k, Num(0)))

\* the row write_hazard_event builds (lines 115-119)
EventRow_no_default(hazard_event) ==
    << StrInt(Get(hazard_event, "timestamp", 0)),
       Get(hazard_event, "hazard_name", ""),
       StrDict(Get(hazard_event, "metadata", <<>>)) >>
EventRow(hazard_event) ==
    << StrInt(Get(hazard_event, "timestamp", 0)),
       Get(hazard_event, "hazard_name", "unknown"),
       StrDict(Get(hazard_event, "metadata", <<>>)) >>

(* --------------------------- the last call ---------------------------- *)
\* what is recorded of a call: its name and the length of sensor_data
Call(op, sensor_data) == [op |-> op, n |-> Len(sensor_data)]

Init ==
    /\ dir_exists = FALSE
    /\ fs = [p \in Paths |-> Absent]
    /\ alive = FALSE
    /\ append_mode = TRUE
    /\ write_header_data = TRUE
    /\ write_header_hazard = TRUE
    /\ ret = "None"
    /\ printed = ""
    /\ last = Call("none", <<>>)
    /\ header_written = {}
    /\ truncated = {}
    /\ initialized = FALSE

(* ---------------------------- __init__ -------------------------------- *)
\* CSVWriter(config); makedirs_fails: os.makedirs raises OSError
Construct(config, makedirs_fails) ==
    /\ makedirs_fails => ~dir_exists
    /\ last' = Call("construct", <<>>)
    /\ printed' = ""
    /\ fs' = fs
    /\ header_written' = {}
    /\ truncated' = {}
    /\ initialized' = FALSE
    /\ IF makedirs_fails
       THEN /\ ret' = "OSError"
            /\ alive' = FALSE
            /\ UNCHANGED <<dir_exists, append_mode, write_header_data,
                           write_header_hazard>>
       ELSE /\ dir_exists' = TRUE
            /\ IF "simulation" \notin DOMAIN config
               THEN /\ ret' = "KeyError"
                    /\ alive' = FALSE
                    /\ UNCHANGED <<append_mode, write_header_data,
                                   write_header_hazard>>
               ELSE /\ ret' = "None"
                    /\ alive' = TRUE
                    /\ append_mode' =
                           Get(config["simulation"], "csv_append_mode", TRUE)
                    /\ write_header_data' = TRUE
                    /\ write_header_hazard' = TRUE

(* ------------------------- initialize_files --------------------------- *)
\* lines 51-54: the header flag after the existence check
HeaderFlag_never_cleared(append, exists, flag) == flag
HeaderFlag(append, exists, flag) ==
    IF append /\ exists THEN FALSE ELSE flag

\* lines 57 and 66: whether the file is opened and its header written
NeedsHeader_append_never(append, flag) == ~append
NeedsHeader(append, flag) == ~append \/ flag

\* lines 58-63 and 67-71: open(path, 'w') and writerow(header)
WriteHeaderFile(f, header, open_fails, write_fails) ==
    IF open_fails THEN [file |-> f, ok |-> FALSE, wrote |-> FALSE]
    ELSE IF write_fails THEN [file |-> OpenW(f), ok |-> FALSE, wrote |-> FALSE]
    ELSE [file |-> WriteRow(OpenW(f), header), ok |-> TRUE, wrote |-> TRUE]

InitFaults == {"none", "data_open", "data_write", "hazard_open", "hazard_write"}

InitializeFiles(fault) ==
    LET whd == HeaderFlag(append_mode, fs[data_path].exists, write_header_data)
        whh == HeaderFlag(append_mode, fs[hazard_path].exists,
                          write_header_hazard)
        doData == NeedsHeader(append_mode, whd)
        doHazard == NeedsHeader(append_mode, whh)
        d == IF doData
             THEN WriteHeaderFile(fs[data_path], DataHeader,
                                  fault = "data_open", fault = "data_write")
             ELSE [file |-> fs[data_path], ok |-> TRUE, wrote |-> FALSE]
        h == IF d.ok /\ doHazard
             THEN WriteHeaderFile(fs[hazard_path], HazardHeader,
                                  fault = "hazard_open", fault = "hazard_write")
             ELSE [file |-> fs[hazard_path], ok |-> d.ok, wrote |-> FALSE]
    IN  /\ alive
        /\ fault \in {"data_open", "data_write"} => doData
        /\ fault \in {"hazard_open", "hazard_write"} => d.ok /\ doHazard
        /\ last' = Call("initialize_files", <<>>)
        /\ write_header_data' = whd
        /\ write_header_hazard' = whh
        /\ fs' = [p \in Paths |-> IF p = data_path THEN d.file ELSE h.file]
        /\ header_written' = {p \in Paths : IF p = data_path THEN d.wrote
                                                              ELSE h.wrote}
        /\ truncated' = {p \in Paths : fs[p].rows # <<>> /\ fs'[p] # fs[p]}
        /\ initialized' = h.ok
        /\ ret' = IF h.ok THEN "True" ELSE "False"
        /\ printed' = IF h.ok THEN "" ELSE "Failed to initialize CSV files"
        /\ UNCHANGED <<dir_exists, alive, append_mode>>

(* ----------------------------- write_data ----------------------------- *)
\* line 82: if not sensor_data
IsEmptyBatch_never(sensor_data) == FALSE
IsEmptyBatch(sensor_data) == sensor_data = <<>>

RECURSIVE WriteRows(_, _)
WriteRows(f, rows) ==
    IF rows = <<>> THEN f ELSE WriteRows(WriteRow(f, Head(rows)), Tail(rows))

\* the index of the first record of the loop that raises: its row cannot be
\* formatted, or writing it fails; Len + 1 when the loop completes
FirstFailure(sensor_data, fail_at) ==
    LET bad == { i \in 1..Len(sensor_data) :
                    RowRaises(sensor_data[i]) \/ i = fail_at }
    IN  IF bad = {} THEN Len(sensor_data) + 1
        ELSE CHOOSE i \in bad : \A j \in bad : i <= j

\* open_fails: open(self.data_path, 'a') raises; fail_at: the record whose
\* writerow raises (0: none)
WriteData(sensor_data, simulation_state, open_fails, fail_at) ==
    /\ alive
    /\ Len(fs[data_path].rows) + Len(sensor_data) <= MaxDataRows
    /\ fail_at \in 0..Len(sensor_data)
    /\ \A i \in 1..fail_at : ~RowRaises(sensor_data[i])
    /\ last' = Call("write_data", sensor_data)
    /\ ret' = "None"
    /\ header_written' = {}
    /\ truncated' = {}
    /\ UNCHANGED <<dir_exists, alive, append_mode, write_header_data,
                   write_header_hazard, initialized>>
    /\ IF IsEmptyBatch(sensor_data)
       THEN /\ ~open_fails
            /\ printed' = ""
            /\ fs' = fs
       ELSE IF open_fails
       THEN /\ fail_at = 0
            /\ printed' = "Error writing data"
            /\ fs' = fs
       ELSE LET timestamp == Get(simulation_state, "simulation_time", 0)
                step == Get(simulation_state, "step", 0)
                k == FirstFailure(sensor_data, fail_at)
                rows == [i \in 1..(k - 1) |->
                            SampleRow(sensor_data[i], timestamp, step)]
            IN  /\ printed' = IF k <= Len(sensor_data)
                              THEN "Error writing data" ELSE ""
                /\ fs' = [fs EXCEPT
                             ![data_path] = WriteRows(OpenA(@), rows)]

(* ------------------------- write_hazard_event ------------------------- *)
EventFaults == {"none", "open", "write"}

WriteHazardEvent(hazard_event, fault) ==
    /\ alive
    /\ Len(fs[hazard_path].rows) < MaxHazardRows
    /\ header_written' = {}
    /\ truncated' = {}
    /\ last' = Call("write_hazard_event", <<>>)
    /\ ret' = "None"
    /\ printed' = IF fault = "none" THEN "" ELSE "Error writing hazard event"
    /\ fs' = [fs EXCEPT ![hazard_path] =
                 IF fault = "open" THEN @
                 ELSE IF fault = "write" THEN OpenA(@)
                 ELSE WriteRow(OpenA(@), EventRow(hazard_event))]
    /\ UNCHANGED <<dir_exists, alive, append_mode, write_header_data,
                   write_header_hazard, initialized>>

(* ---------------------------- environment ----------------------------- *)
\* a file of the output directory is removed between two calls
RemoveFile(p) ==
    /\ fs[p].exists
    /\ fs' = [fs EXCEPT ![p] = Absent]
    /\ last' = Call("remove", <<>>)
    /\ ret' = "None"
    /\ printed' = ""
    /\ header_written' = {}
    /\ truncated' = {}
    /\ initialized' = FALSE
    /\ UNCHANGED <<dir_exists, alive, append_mode, write_header_data,
                   write_header_hazard>>

Next ==
    \/ \E config \in Configs, makedirs_fails \in BOOLEAN :
           Construct(config, makedirs_fails)
    \/ \E fault \in InitFaults : InitializeFiles(fault)
    \/ \E sensor_data \in Batches, simulation_state \in SimStates,
          open_fails \in BOOLEAN, fail_at \in 0..MaxBatch :
           WriteData(sensor_data, simulation_state, open_fails, fail_at)
    \/ \E hazard_event \in Events, fault \in EventFaults :
           WriteHazardEvent(hazard_event, fault)
    \/ \E p \in Paths : RemoveFile(p)

Spec == Init /\ [][Next]_vars

(* ============================ properties ============================== *)
IsPrefix(s, t) == Len(s) <= Len(t) /\ SubSeq(t, 1, Len(s)) = s

HeaderCount(p, f) == Cardinality({ i \in 1..Len(f.rows) : f.rows[i] = Header(p) })

HeaderFirst(p, f) == f.exists /\ f.rows # <<>> /\ f.rows[1] = Header(p)

HeaderOnly(p) == [exists |-> TRUE, rows |-> << Header(p) >>]

IsWrite(op) == op \in {"write_data", "write_hazard_event"}

Flag(p) == IF p = data_path THEN write_header_data ELSE write_header_hazard

\* C1: after every call each of the two files holds at most one header row,
\* and initialize_files in append mode leaves a file that holds rows as it
\* is, writing no header to it.
C1_HeaderAtMostOnce ==
    [][\A p \in Paths :
          /\ HeaderCount(p, fs'[p]) <= 1
          /\ (last'.op = "initialize_files" /\ append_mode /\ fs[p].rows # <<>>)
                => (p \notin header_written' /\ fs'[p] = fs[p])]_vars

C1_Witness ==
    /\ last.op = "initialize_files"
    /\ ret = "True"
    /\ append_mode
    /\ header_written = {}
    /\ \A p \in Paths : HeaderFirst(p, fs[p])
    /\ Len(fs[data_path].rows) >= 2

\* C2: on every initialize_files call that succeeds, a file gets its header
\* row written exactly when the logger is not in append mode or the file
\* does not exist at the time of the call.
C2_HeaderExactlyWhenAbsent ==
    [][(last'.op = "initialize_files" /\ ret' = "True")
          => \A p \in Paths :
                 (p \in header_written') <=> (~append_mode \/ ~fs[p].exists)]_vars

\* C3: when append mode is false, a successful initialize_files leaves each
\* file holding its header row and nothing else.
C3_NonAppendHeaderOnly ==
    (last.op = "initialize_files" /\ ret = "True" /\ ~append_mode)
        => \A p \in Paths : fs[p] = HeaderOnly(p)

C3_Witness ==
    /\ last.op = "initialize_files"
    /\ ret = "True"
    /\ ~append_mode
    /\ truncated = Paths
    /\ \A p \in Paths : fs[p] = HeaderOnly(p)

\* C4: no operation of the logger, the construction included, lets an I/O
\* failure reach its caller.
C4_NoIOFailurePropagates == ret # "OSError"

\* C5: a write_data or write_hazard_event call that hits a failure leaves the
\* content of both files as it was before the call.
C5_FailedWriteChangesNothing ==
    [][(IsWrite(last'.op) /\ printed' # "")
          => \A p \in Paths : fs'[p].rows = fs[p].rows]_vars

\* C6: write_data with an empty sensor_data changes neither of the two files
\* (none is created, truncated or extended) nor the header flags.
C6_EmptyBatchChangesNothing ==
    [][(last'.op = "write_data" /\ last'.n = 0)
          => UNCHANGED <<fs, write_header_data, write_header_hazard,
                         append_mode, dir_exists>>]_vars

C6_Witness ==
    /\ last = [op |-> "write_data", n |-> 0]
    /\ printed = ""
    /\ \A p \in Paths : ~fs[p].exists

\* C7: a write_data call on n > 0 records that completes without failure
\* appends exactly n rows to the data file, the i-th of them carrying the
\* time and the step of simulation_state and the fields of the i-th record;
\* the rows the file held stay in front and the hazard file is unchanged.
C7_BatchAppended ==
    [][\A sensor_data \in Batches, simulation_state \in SimStates :
          (/\ last'.op = "write_data"
           /\ printed' = ""
           /\ sensor_data # <<>>
           /\ last'.n = Len(sensor_data)
           /\ WriteData(sensor_data, simulation_state, FALSE, 0))
          => LET old == fs[data_path].rows
                 new == fs'[data_path].rows
                 n == Len(sensor_data)
             IN  /\ Len(new) = Len(old) + n
                 /\ SubSeq(new, 1, Len(old)) = old
                 /\ \A i \in 1..n :
                       LET row == new[Len(old) + i]
                           data == sensor_data[i]
                       IN  /\ Len(row) = Len(DataHeader)
                           /\ row[1] = ToString(
                                  IF "simulation_time" \in DOMAIN simulation_state
                                  THEN simulation_state["simulation_time"] ELSE 0)
                           /\ row[2] = ToString(
                                  IF "step" \in DOMAIN simulation_state
                                  THEN simulation_state["step"] ELSE 0)
                           /\ row[3] = data["id"]
                           /\ row[4] = (IF "type" \in DOMAIN data
                                        THEN data["type"] ELSE "")
                           /\ row[11] = (IF "hazard_active" \in DOMAIN data
                                            /\ data["hazard_active"]
                                         THEN "True" ELSE "False")
                 /\ fs'[hazard_path] = fs[hazard_path]]_vars

C7_Witness ==
    /\ last = [op |-> "write_data", n |-> 2]
    /\ printed = ""
    /\ Len(fs[data_path].rows) = 3
    /\ fs[data_path].rows[1] = DataHeader
    /\ fs[data_path].rows[2][1] = "10"
    /\ fs[data_path].rows[3][1] = "10"
    /\ fs[data_path].rows[2][3] = "veh1"
    /\ fs[data_path].rows[3][3] = "veh0"

\* C8: a write_hazard_event call that completes without failure appends
\* exactly one row to the hazard file: the timestamp of the event, its name,
\* "unknown" when it has none, and the rendering of its metadata; the data
\* file is unchanged.
C8_EventAppended ==
    [][\A hazard_event \in Events :
          (/\ last'.op = "write_hazard_event"
           /\ printed' = ""
           /\ WriteHazardEvent(hazard_event, "none"))
          => LET old == fs[hazard_path].rows
                 new == fs'[hazard_path].rows
                 row == new[Len(new)]
             IN  /\ Len(new) = Len(old) + 1
                 /\ SubSeq(new, 1, Len(old)) = old
                 /\ Len(row) = 3
                 /\ row[1] = ToString(IF "timestamp" \in DOMAIN hazard_event
                                      THEN hazard_event["timestamp"] ELSE 0)
                 /\ row[2] = (IF "hazard_name" \in DOMAIN hazard_event
                              THEN hazard_event["hazard_name"] ELSE "unknown")
                 /\ row[3] = StrDict(hazard_event["metadata"])
                 /\ hazard_event["metadata"] = <<>> => row[3] = "{}"
                 /\ fs'[data_path] = fs[data_path]]_vars

C8_Witness ==
    /\ last.op = "write_hazard_event"
    /\ printed = ""
    /\ Len(fs[hazard_path].rows) = 2
    /\ fs[hazard_path].rows[1] = HazardHeader
    /\ fs[hazard_path].rows[2] =
           <<"0", "unknown", "{'lane': 'E0_0', 'kind': 'flood'}">>

\* C9: over every write_data and write_hazard_event call, failing or not, and
\* every initialize_files call made in append mode, the rows each file held
\* before the call are a prefix of the rows it holds after it.
C9_AppendOnly ==
    [][(IsWrite(last'.op) \/ (last'.op = "initialize_files" /\ append_mode))
          => \A p \in Paths : IsPrefix(fs[p].rows, fs'[p].rows)]_vars

C9_Witness ==
    /\ last = [op |-> "write_data", n |-> 1]
    /\ append_mode
    /\ initialized
    /\ Len(fs[data_path].rows) = 3
    /\ Len(fs[hazard_path].rows) = 2

\* C10 as stated: once initialize_files has returned True, and through the
\* write_data and write_hazard_event calls that follow, each file exists and
\* its first row is its header row.
C10_HeaderFirstAfterInit ==
    initialized => \A p \in Paths : HeaderFirst(p, fs[p])

\* C10 as amended: the same for every file whose header was due at that
\* call: any file when not in append mode, and in append mode a file that
\* existed neither at that call nor at an earlier initialize_files call of
\* the logger (its header flag is still set).
C10_HeaderFirstWhenDue ==
    initialized =>
        \A p \in Paths : (~append_mode \/ Flag(p)) => HeaderFirst(p, fs[p])

C10_Witness ==
    /\ initialized
    /\ append_mode
    /\ last.op = "write_hazard_event"
    /\ \A p \in Paths : Flag(p) /\ HeaderFirst(p, fs[p])
    /\ Len(fs[hazard_path].rows) = 2
    /\ Len(fs[data_path].rows) = 2
====
